---- MODULE Spec2Model ----
(***************************************************************************)
(* Model of the vocabulary spaced-repetition scheduler of the TOEFL app    *)
(* (app/flask_app/scheduler.py, compute_schedule) and of the progress      *)
(* record it mutates (models.py, UserWord).                                *)
(*                                                                         *)
(* Numbers.  easiness and interval are Python floats; they are modelled as *)
(* exact rationals [n, d] in lowest terms (d > 0).  Times are rationals    *)
(* counted in minutes since the start of the run; the wall clock advances  *)
(* in whole minutes.  round(easiness, 4) is modelled by Round4.            *)
(***************************************************************************)
EXTENDS Integers, Sequences, FiniteSets, TLC

\* ---- bounds of the model ------------------------------------------------
MaxGrades == 5
MaxClock == 2
\* in the application: rows of the words table, requests handled (apart from
\* GET /session), and the last clock reading
NumWords == 3
MaxOps == 2
MaxAppClock == 1
MaxConcClock == 1
\* fetch-or-create calls made by the threads together
MaxCreateCalls == 3
\* grades other than "recognize" in the runs of a session
MaxSessionOps == 2

\* ---- exact arithmetic standing for the float arithmetic of the code -----
Abs(a) == IF a < 0 THEN -a ELSE a

RECURSIVE GCD(_, _)
GCD(a, b) == IF b = 0 THEN a ELSE GCD(b, a % b)

Rat(n, d) ==
    LET g == GCD(Abs(n), d)
    IN  [n |-> n \div g, d |-> d \div g]

RAdd(x, y) == Rat(x.n * y.d + y.n * x.d, x.d * y.d)
RSub(x, y) == Rat(x.n * y.d - y.n * x.d, x.d * y.d)
RMul(x, y) == Rat(x.n * y.n, x.d * y.d)
RLeq(x, y) == x.n * y.d <= y.n * x.d
RLess(x, y) == x.n * y.d < y.n * x.d
RMax(x, y) == IF RLeq(y, x) THEN x ELSE y

\* round(x, 4): nearest multiple of 1/10000, ties to even
Round4(x) ==
    LET N == x.n * 10000
        q == N \div x.d
        r == N % x.d
        up == IF 2 * r > x.d THEN 1
              ELSE IF 2 * r = x.d /\ q % 2 = 1 THEN 1
              ELSE 0
    IN  Rat(q + up, 10000)

\* timedelta(days=x) and timedelta(minutes=m), in minutes
Days(x) == RMul(x, Rat(1440, 1))
Minutes(m) == Rat(m, 1)

\* ---- the progress record -------------------------------------------------
None == "None"
\* user_word is None: no record was handed to compute_schedule
NoUserWord == [is_none |-> TRUE]
Grades == {"recognize", "barely", "not"}

GRADE_SCORES(grade) ==
    CASE grade = "recognize" -> 5
      [] grade = "barely" -> 3
      [] grade = "not" -> 1

\* UserWord(user_id, word_id) as get_or_create_user_word flushes it: the
\* column defaults of the model
DefaultUserWord(now) ==
    [easiness |-> Rat(5, 2), interval |-> Rat(0, 1), repetitions |-> 0,
     next_due |-> Rat(now, 1), last_grade |-> None]

\* the record compute_schedule builds when it is handed no record
NewUserWord(grade, now) ==
    [easiness |-> Rat(5, 2), interval |-> Rat(0, 1), repetitions |-> 0,
     next_due |-> Rat(now, 1), last_grade |-> grade]

\* ---- compute_schedule, branch by branch ----------------------------------
\* Each branch yields the four locals of the function after the branch and
\* the source line of the interval / next_due assignment it executed.

\* mutant: the interval is capped at a week
RecognizeInterval_Capped(repetitions, last_grade, interval_days, easiness) ==
    IF last_grade \in {"barely", "not"} /\ repetitions <= 3
    THEN IF repetitions = 1 THEN [v |-> Rat(1, 2), line |-> 53]
         ELSE IF repetitions = 2 THEN [v |-> Rat(3, 2), line |-> 55]
         ELSE IF repetitions = 3 THEN [v |-> Rat(3, 1), line |-> 57]
         ELSE [v |-> RMax(Rat(1, 1), RMul(interval_days, RMul(easiness, Rat(4, 5)))),
               line |-> 59]
    ELSE IF repetitions = 1 THEN [v |-> Rat(1, 1), line |-> 63]
         ELSE IF repetitions = 2 THEN [v |-> Rat(3, 1), line |-> 65]
         ELSE IF repetitions = 3 THEN [v |-> Rat(7, 1), line |-> 67]
         ELSE [v |-> LET x == RMax(Rat(1, 1), RMul(interval_days, easiness))
                     IN  IF RLeq(x, Rat(7, 1)) THEN x ELSE Rat(7, 1),
               line |-> 69]

\* mutant: the classic SM-2 second interval of 6 days
RecognizeInterval_Classic(repetitions, last_grade, interval_days, easiness) ==
    IF last_grade \in {"barely", "not"} /\ repetitions <= 3
    THEN IF repetitions = 1 THEN [v |-> Rat(1, 2), line |-> 53]
         ELSE IF repetitions = 2 THEN [v |-> Rat(3, 2), line |-> 55]
         ELSE IF repetitions = 3 THEN [v |-> Rat(3, 1), line |-> 57]
         ELSE [v |-> RMax(Rat(1, 1), RMul(interval_days, RMul(easiness, Rat(4, 5)))),
               line |-> 59]
    ELSE IF repetitions = 1 THEN [v |-> Rat(1, 1), line |-> 63]
         ELSE IF repetitions = 2 THEN [v |-> Rat(6, 1), line |-> 65]
         ELSE IF repetitions = 3 THEN [v |-> Rat(7, 1), line |-> 67]
         ELSE [v |-> RMax(Rat(1, 1), RMul(interval_days, easiness)), line |-> 69]

\* mutant: the comeback test without its repetitions <= 3 conjunct
RecognizeInterval_NoRepTest(repetitions, last_grade, interval_days, easiness) ==
    IF last_grade \in {"barely", "not"}
    THEN IF repetitions = 1 THEN [v |-> Rat(1, 2), line |-> 53]
         ELSE IF repetitions = 2 THEN [v |-> Rat(3, 2), line |-> 55]
         ELSE IF repetitions = 3 THEN [v |-> Rat(3, 1), line |-> 57]
         ELSE [v |-> RMax(Rat(1, 1), RMul(interval_days, RMul(easiness, Rat(4, 5)))),
               line |-> 59]
    ELSE IF repetitions = 1 THEN [v |-> Rat(1, 1), line |-> 63]
         ELSE IF repetitions = 2 THEN [v |-> Rat(3, 1), line |-> 65]
         ELSE IF repetitions = 3 THEN [v |-> Rat(7, 1), line |-> 67]
         ELSE [v |-> RMax(Rat(1, 1), RMul(interval_days, easiness)), line |-> 69]

RecognizeInterval(repetitions, last_grade, interval_days, easiness) ==
    IF last_grade \in {"barely", "not"} /\ repetitions <= 3
    THEN IF repetitions = 1 THEN [v |-> Rat(1, 2), line |-> 53]
         ELSE IF repetitions = 2 THEN [v |-> Rat(3, 2), line |-> 55]
         ELSE IF repetitions = 3 THEN [v |-> Rat(3, 1), line |-> 57]
         ELSE [v |-> RMax(Rat(1, 1), RMul(interval_days, RMul(easiness, Rat(4, 5)))),
               line |-> 59]
    ELSE IF repetitions = 1 THEN [v |-> Rat(1, 1), line |-> 63]
         ELSE IF repetitions = 2 THEN [v |-> Rat(3, 1), line |-> 65]
         ELSE IF repetitions = 3 THEN [v |-> Rat(7, 1), line |-> 67]
         ELSE [v |-> RMax(Rat(1, 1), RMul(interval_days, easiness)), line |-> 69]

\* mutant: easiness capped at its starting value 2.5
RecognizeEasiness_Capped(easiness, score) ==
    LET k == Rat(5 - score, 1)
        delta == RSub(Rat(1, 10), RMul(k, RAdd(Rat(2, 25), RMul(k, Rat(1, 50)))))
        e == RMax(Rat(13, 10), RAdd(easiness, delta))
    IN  IF RLeq(e, Rat(5, 2)) THEN e ELSE Rat(5, 2)

\* easiness + (0.1 - (5 - score) * (0.08 + (5 - score) * 0.02)), floored
RecognizeEasiness(easiness, score) ==
    LET k == Rat(5 - score, 1)
        delta == RSub(Rat(1, 10), RMul(k, RAdd(Rat(2, 25), RMul(k, Rat(1, 50)))))
    IN  RMax(Rat(13, 10), RAdd(easiness, delta))

RecognizeDue(now, interval_days) == RAdd(Rat(now, 1), Days(interval_days))

\* mutant: repetitions is not incremented
Recognize_NoIncrement(uw, score, now) ==
    LET repetitions == uw.repetitions
        iv == RecognizeInterval(repetitions, uw.last_grade, uw.interval, uw.easiness)
    IN  [easiness |-> RecognizeEasiness(uw.easiness, score),
         repetitions |-> repetitions,
         interval_days |-> iv.v,
         next_due |-> RecognizeDue(now, iv.v),
         line |-> iv.line]

Recognize(uw, score, now) ==
    LET repetitions == uw.repetitions + 1
        iv == RecognizeInterval(repetitions, uw.last_grade, uw.interval, uw.easiness)
    IN  [easiness |-> RecognizeEasiness(uw.easiness, score),
         repetitions |-> repetitions,
         interval_days |-> iv.v,
         next_due |-> RecognizeDue(now, iv.v),
         line |-> iv.line]

BarelyEasiness(easiness) == RMax(Rat(13, 10), RSub(easiness, Rat(3, 20)))

\* mutant: a "barely" advances repetitions
Barely_Advance(uw, now) ==
    LET repetitions == uw.repetitions + 1
        again == uw.last_grade = "barely"
    IN  [easiness |-> BarelyEasiness(uw.easiness),
         repetitions |-> repetitions,
         interval_days |-> IF again THEN Rat(1, 10) ELSE Rat(1, 5),
         next_due |-> IF again THEN RAdd(Rat(now, 1), Minutes(10))
                      ELSE RAdd(Rat(now, 1), Minutes(30)),
         line |-> IF again THEN 83 ELSE 87]

\* mutant: min(1, repetitions) for max(1, repetitions)
Barely_Min(uw, now) ==
    LET repetitions == IF uw.repetitions < 1 THEN uw.repetitions ELSE 1
        again == uw.last_grade = "barely"
    IN  [easiness |-> BarelyEasiness(uw.easiness),
         repetitions |-> repetitions,
         interval_days |-> IF again THEN Rat(1, 10) ELSE Rat(1, 5),
         next_due |-> IF again THEN RAdd(Rat(now, 1), Minutes(10))
                      ELSE RAdd(Rat(now, 1), Minutes(30)),
         line |-> IF again THEN 83 ELSE 87]

Barely(uw, now) ==
    LET repetitions == IF uw.repetitions > 1 THEN uw.repetitions ELSE 1
        again == uw.last_grade = "barely"
    IN  [easiness |-> BarelyEasiness(uw.easiness),
         repetitions |-> repetitions,
         interval_days |-> IF again THEN Rat(1, 10) ELSE Rat(1, 5),
         next_due |-> IF again THEN RAdd(Rat(now, 1), Minutes(10))
                      ELSE RAdd(Rat(now, 1), Minutes(30)),
         line |-> IF again THEN 83 ELSE 87]

\* mutant: the 1.3 floor is missing
NotEasiness_NoFloor(easiness) == RSub(easiness, Rat(1, 4))

NotEasiness(easiness) == RMax(Rat(13, 10), RSub(easiness, Rat(1, 4)))

NotOffset(last_grade) ==
    IF last_grade = "not" THEN [m |-> 1, line |-> 101]
    ELSE IF last_grade = "barely" THEN [m |-> 2, line |-> 104]
    ELSE [m |-> 3, line |-> 107]

\* mutant: the offset is subtracted
NotDue_Minus(now, m) == RSub(Rat(now, 1), Minutes(m))

NotDue(now, m) == RAdd(Rat(now, 1), Minutes(m))

\* mutant: repetitions and interval survive a "not"
Not_NoReset(uw, now) ==
    LET off == NotOffset(uw.last_grade)
    IN  [easiness |-> NotEasiness(uw.easiness),
         repetitions |-> uw.repetitions,
         interval_days |-> uw.interval,
         next_due |-> NotDue(now, off.m),
         line |-> off.line]

\* mutant: repetitions is decremented, not reset
Not_Decrement(uw, now) ==
    LET off == NotOffset(uw.last_grade)
    IN  [easiness |-> NotEasiness(uw.easiness),
         repetitions |-> uw.repetitions - 1,
         interval_days |-> Rat(0, 1),
         next_due |-> NotDue(now, off.m),
         line |-> off.line]

\* mutant: the new due time is counted from the old due time
Not_FromOldDue(uw, now) ==
    LET off == NotOffset(uw.last_grade)
    IN  [easiness |-> NotEasiness(uw.easiness),
         repetitions |-> 0,
         interval_days |-> Rat(0, 1),
         next_due |-> RAdd(uw.next_due, Minutes(off.m)),
         line |-> off.line]

Not(uw, now) ==
    LET off == NotOffset(uw.last_grade)
    IN  [easiness |-> NotEasiness(uw.easiness),
         repetitions |-> 0,
         interval_days |-> Rat(0, 1),
         next_due |-> NotDue(now, off.m),
         line |-> off.line]

\* mutant: last_grade is left as it was
compute_schedule_KeepLastGrade(user_word, grade, now) ==
    LET score == GRADE_SCORES(grade)
        uw == IF user_word = NoUserWord THEN NewUserWord(grade, now) ELSE user_word
        b == IF score >= 4 THEN Recognize(uw, score, now)
             ELSE IF score = 3 THEN Barely(uw, now)
             ELSE Not(uw, now)
    IN  [user_word |-> [easiness |-> Round4(b.easiness),
                        repetitions |-> b.repetitions,
                        interval |-> b.interval_days,
                        next_due |-> b.next_due,
                        last_grade |-> uw.last_grade],
         next_due |-> b.next_due,
         line |-> b.line]

\* compute_schedule(user_word, grade, user_id) run while the wall clock reads
\* `now`: the updated record, the returned next_due and the line taken
compute_schedule(user_word, grade, now) ==
    LET score == GRADE_SCORES(grade)
        uw == IF user_word = NoUserWord THEN NewUserWord(grade, now) ELSE user_word
        b == IF score >= 4 THEN Recognize(uw, score, now)
             ELSE IF score = 3 THEN Barely(uw, now)
             ELSE Not(uw, now)
    IN  [user_word |-> [easiness |-> Round4(b.easiness),
                        repetitions |-> b.repetitions,
                        interval |-> b.interval_days,
                        next_due |-> b.next_due,
                        last_grade |-> grade],
         next_due |-> b.next_due,
         line |-> b.line]

\* mutant: GRADE_SCORES.get(grade, 1), an unknown grade scored as "not"
try_compute_schedule_DefaultScore(user_word, grade, now) ==
    IF grade \notin Grades
    THEN LET uw == IF user_word = NoUserWord THEN NewUserWord(grade, now) ELSE user_word
             b == Not(uw, now)
         IN  [raised |-> None,
              user_word |-> [easiness |-> Round4(b.easiness),
                             repetitions |-> b.repetitions,
                             interval |-> b.interval_days,
                             next_due |-> b.next_due,
                             last_grade |-> grade]]
    ELSE [raised |-> None, user_word |-> compute_schedule(user_word, grade, now).user_word]

\* compute_schedule called with any grade: GRADE_SCORES[grade] raises KeyError
\* at line 28, before the record is read or written
try_compute_schedule(user_word, grade, now) ==
    IF grade \notin Grades
    THEN [raised |-> "KeyError", user_word |-> user_word]
    ELSE [raised |-> None, user_word |-> compute_schedule(user_word, grade, now).user_word]

\* ---- state ----------------------------------------------------------------
VARIABLES
    user_word,  \* the progress record of one (user, word) pair, or None
    clock,      \* datetime.now(timezone.utc), in minutes
    call,       \* the last compute_schedule call: arguments, clock read, result
    ngrades,    \* number of compute_schedule calls made so far
    twin,       \* a repeat of the last call on an equal copy of its arguments
    since_fail, \* the grades applied since the last "not" (or since creation)
    user_words, \* table user_words of the one user: word id -> record or None
    review_log, \* table review_logs, in insertion order
    unfamiliar, \* table unfamiliar_words: the word texts the user has marked
    session,    \* active_sessions[session_id] of the user's vocabulary session
    last,       \* the last request handled: its inputs, answer and prior state
    nops,       \* number of requests handled, GET /session apart
    requests,   \* the grade_card requests in flight, each in a thread of its own
    start,      \* the record of the word the requests in flight began with
    rows,       \* table user_words row by row, uncommitted rows with their owner
    gemini,     \* a GeminiClient and the generate_json call it is serving
    reading     \* a get_sentence, get_paragraph or get_passage call and the seeds

schedvars == <<user_word, call, ngrades, twin, since_fail>>
appvars == <<user_words, review_log, unfamiliar, session, last, nops>>
concvars == <<requests, start, rows, gemini, reading>>
vars == <<user_word, clock, call, ngrades, twin, since_fail,
          user_words, review_log, unfamiliar, session, last, nops,
          requests, start, rows, gemini, reading>>

WordIds == 1..NumWords
\* a word_id that is no row of words
NoWordId == 0
\* word texts: text w is the lemma of word w, text 0 is the lemma of no word
Texts == 0..NumWords
NoSession == [exists |-> FALSE]
NoRequest == [op |-> None]
\* the threads of the server that handle a grade_card request each
Threads == {"a", "b"}
Idle == [pc |-> "idle"]
\* no GeminiClient was built
NoClient == [pc |-> None]
\* no reading item was asked for
NoReading == [pc |-> None]

AppInit ==
    /\ user_words = [w \in WordIds |-> NoUserWord]
    /\ review_log = <<>>
    /\ unfamiliar = {}
    /\ session = NoSession
    /\ last = NoRequest
    /\ nops = 0
    /\ requests = [t \in Threads |-> Idle]
    /\ start = NoUserWord
    /\ rows = <<>>
    /\ gemini = NoClient
    /\ reading = NoReading
    /\ gemini = NoClient
    /\ reading = NoReading

NoCall == [grade |-> None]
NoTwin == [now |-> -1]

Init ==
    /\ user_word \in {NoUserWord, DefaultUserWord(0)}
    /\ clock = 0
    /\ call = NoCall
    /\ ngrades = 0
    /\ twin = NoTwin
    /\ since_fail = <<>>
    /\ AppInit

\* one call compute_schedule(user_word, grade, user_id) on the stored record
ComputeSchedule(grade) ==
    /\ ngrades < MaxGrades
    /\ LET r == compute_schedule(user_word, grade, clock)
       IN  /\ user_word' = r.user_word
           /\ call' = [grade |-> grade, prior |-> user_word, now |-> clock,
                       next_due |-> r.next_due, line |-> r.line]
    /\ ngrades' = ngrades + 1
    /\ twin' = NoTwin
    /\ since_fail' = IF grade = "not" THEN <<>> ELSE Append(since_fail, grade)
    /\ UNCHANGED <<clock, appvars, concvars>>

\* the wall clock advances
Tick ==
    /\ clock < MaxClock
    /\ clock' = clock + 1
    /\ UNCHANGED <<schedvars, appvars, concvars>>

Next ==
    \/ \E grade \in Grades : ComputeSchedule(grade)
    \/ Tick

Spec == Init /\ [][Next]_vars

\* compute_schedule called a second time with arguments equal to those of the
\* last call (an equal copy of the record, the same grade, the same user_id)
TwinCall ==
    /\ call # NoCall
    /\ twin = NoTwin
    /\ LET r == compute_schedule(call.prior, call.grade, clock)
       IN  twin' = [now |-> clock, user_word |-> r.user_word, next_due |-> r.next_due]
    /\ UNCHANGED <<user_word, clock, call, ngrades, since_fail, appvars, concvars>>

NextTwin ==
    \/ \E grade \in Grades : ComputeSchedule(grade)
    \/ Tick
    \/ TwinCall

SpecTwin == Init /\ [][NextTwin]_vars

\* ---- the application: handlers of app.py over the tables -------------------
DailyGoal == 20
GradeCardGrades == {"recognize", "barely", "not"}
\* a grade a request may carry that is none of the three
BadGrade == "bogus"
RequestGrades == GradeCardGrades \cup {BadGrade}

Min(a, b) == IF a < b THEN a ELSE b
Max(a, b) == IF a > b THEN a ELSE b

\* the tables and the session a handler reads and writes
AppState ==
    [user_words |-> user_words, review_log |-> review_log,
     unfamiliar |-> unfamiliar, session |-> session]

\* get_or_create_user_word: the stored record, a fresh one with the column
\* defaults when the word exists, None when it does not
get_or_create_user_word(uws, word_id, now) ==
    IF word_id \in WordIds /\ uws[word_id] # NoUserWord THEN uws[word_id]
    ELSE IF word_id \notin WordIds THEN NoUserWord
    ELSE DefaultUserWord(now)

log_review(word_id, grade, is_new, easiness, interval, now) ==
    [word_id |-> word_id, grade |-> grade, is_new |-> is_new,
     easiness |-> easiness, interval |-> interval, created_at |-> now]

\* queue entries are word ids already: only the flag changes
NormalizeSession(sess) ==
    IF sess.normalized THEN sess ELSE [sess EXCEPT !.normalized = TRUE]

\* items.insert(i, x)
InsertAt(items, i, x) ==
    SubSeq(items, 1, i) \o <<x>> \o SubSeq(items, i + 1, Len(items))

\* mutant: the two offsets exchanged
RequeueOffset_Swapped(grade) == IF grade = "barely" THEN 1 ELSE 2

RequeueOffset(grade) == IF grade = "barely" THEN 2 ELSE 1

\* mutant: the head is put back after every grade
UpdateQueue_RequeueAll(sess, grade) ==
    LET current_id == IF sess.queue # <<>> THEN Head(sess.queue) ELSE NoWordId
        popped == IF sess.queue # <<>> THEN Tail(sess.queue) ELSE sess.queue
        truthy == current_id # 0
        seen1 == IF truthy THEN sess.seen \cup {current_id} ELSE sess.seen
        ids1 == IF truthy THEN sess.queue_ids \ {current_id} ELSE sess.queue_ids
    IN  IF truthy
        THEN LET insert_at == Min(Len(popped), RequeueOffset(grade))
             IN  [sess EXCEPT !.queue = InsertAt(popped, insert_at, current_id),
                              !.seen = seen1,
                              !.queue_ids = ids1 \cup {current_id}]
        ELSE [sess EXCEPT !.queue = popped, !.seen = seen1, !.queue_ids = ids1]

\* grade_card, "Update session queue" and "Requeue if needed"
UpdateQueue(sess, grade) ==
    LET current_id == IF sess.queue # <<>> THEN Head(sess.queue) ELSE NoWordId
        popped == IF sess.queue # <<>> THEN Tail(sess.queue) ELSE sess.queue
        truthy == current_id # 0
        seen1 == IF truthy THEN sess.seen \cup {current_id} ELSE sess.seen
        ids1 == IF truthy THEN sess.queue_ids \ {current_id} ELSE sess.queue_ids
    IN  IF grade \in {"barely", "not"} /\ truthy
        THEN LET insert_at == Min(Len(popped), RequeueOffset(grade))
             IN  [sess EXCEPT !.queue = InsertAt(popped, insert_at, current_id),
                              !.seen = seen1,
                              !.queue_ids = ids1 \cup {current_id}]
        ELSE [sess EXCEPT !.queue = popped, !.seen = seen1, !.queue_ids = ids1]

Answer(status, error, st) ==
    [status |-> status, error |-> error, user_words |-> st.user_words,
     review_log |-> st.review_log, unfamiliar |-> st.unfamiliar,
     session |-> st.session]

\* mutant: the review is logged with the values from before the update
grade_card_LogBefore(st, word_id, grade, now) ==
    IF st.session = NoSession
    THEN Answer(400, "Invalid session", st)
    ELSE LET st1 == [st EXCEPT !.session = NormalizeSession(st.session)]
         IN  IF grade \notin GradeCardGrades
             THEN Answer(400, "Invalid grade", st1)
             ELSE LET user_word0 == get_or_create_user_word(st1.user_words, word_id, now)
                  IN  IF user_word0 = NoUserWord
                      THEN Answer(404, "Word not found", st1)
                      ELSE LET was_new == user_word0.repetitions = 0
                               r == compute_schedule(user_word0, grade, now)
                               updated == r.user_word
                               entry == log_review(word_id, grade, was_new,
                                                   user_word0.easiness, user_word0.interval, now)
                           IN  Answer(200, None,
                                 [st1 EXCEPT
                                    !.user_words = [@ EXCEPT ![word_id] = updated],
                                    !.review_log = Append(@, entry),
                                    !.session = UpdateQueue(@, grade)])

\* POST /session/<session_id>/grade with JSON word_id and grade, handled
\* while the clock reads `now`
grade_card(st, word_id, grade, now) ==
    IF st.session = NoSession
    THEN Answer(400, "Invalid session", st)
    ELSE LET st1 == [st EXCEPT !.session = NormalizeSession(st.session)]
         IN  IF grade \notin GradeCardGrades
             THEN Answer(400, "Invalid grade", st1)
             ELSE LET user_word0 == get_or_create_user_word(st1.user_words, word_id, now)
                  IN  IF user_word0 = NoUserWord
                      THEN Answer(404, "Word not found", st1)
                      ELSE LET was_new == user_word0.repetitions = 0
                               r == compute_schedule(user_word0, grade, now)
                               updated == r.user_word
                               entry == log_review(word_id, grade, was_new,
                                                   updated.easiness, updated.interval, now)
                           IN  Answer(200, None,
                                 [st1 EXCEPT
                                    !.user_words = [@ EXCEPT ![word_id] = updated],
                                    !.review_log = Append(@, entry),
                                    !.session = UpdateQueue(@, grade)])

\* mutant: the word is made due at the start of time, not now
add_unfamiliar_word_DueAtZero(st, text, now) ==
    IF text \in st.unfamiliar
    THEN Answer(200, "Word already in unfamiliar list", st)
    ELSE LET st1 == [st EXCEPT !.unfamiliar = @ \cup {text}]
         IN  IF text \in WordIds
             THEN LET uw == get_or_create_user_word(st.user_words, text, now)
                      reset == [uw EXCEPT
                                  !.repetitions = 0,
                                  !.interval = Rat(0, 1),
                                  !.easiness = RMax(Rat(13, 10), RSub(uw.easiness, Rat(3, 10))),
                                  !.next_due = Rat(0, 1),
                                  !.last_grade = "not"]
                  IN  Answer(201, None, [st1 EXCEPT !.user_words = [@ EXCEPT ![text] = reset]])
             ELSE Answer(201, None, st1)

\* POST /api/unfamiliar-words with a non-empty word text
add_unfamiliar_word(st, text, now) ==
    IF text \in st.unfamiliar
    THEN Answer(200, "Word already in unfamiliar list", st)
    ELSE LET st1 == [st EXCEPT !.unfamiliar = @ \cup {text}]
         IN  IF text \in WordIds
             THEN LET uw == get_or_create_user_word(st.user_words, text, now)
                      reset == [uw EXCEPT
                                  !.repetitions = 0,
                                  !.interval = Rat(0, 1),
                                  !.easiness = RMax(Rat(13, 10), RSub(uw.easiness, Rat(3, 10))),
                                  !.next_due = Rat(now, 1),
                                  !.last_grade = "not"]
                  IN  Answer(201, None, [st1 EXCEPT !.user_words = [@ EXCEPT ![text] = reset]])
             ELSE Answer(201, None, st1)

\* DELETE /api/unfamiliar-words/<id>
remove_unfamiliar_word(st, text) ==
    IF text \notin st.unfamiliar
    THEN Answer(404, "Unfamiliar word not found", st)
    ELSE Answer(200, None, [st EXCEPT !.unfamiliar = @ \ {text}])

\* ---- create_vocab_session ---------------------------------------------------
\* int(daily_goal * pct / 100)
IntPct(daily_goal, pct) == (daily_goal * pct) \div 100

Seen(uws) == {w \in WordIds : uws[w] # NoUserWord}

Struggling(uws) ==
    {w \in Seen(uws) :
        \/ uws[w].last_grade = "not"
        \/ RLess(uws[w].easiness, Rat(17, 10))
        \/ RLess(uws[w].interval, Rat(1, 1)) /\ uws[w].repetitions > 0}

DueReview(uws, now) ==
    {w \in Seen(uws) : RLeq(uws[w].next_due, Rat(now, 1)) /\ uws[w].repetitions > 0}

\* get_unfamiliar_words_for_study without its limit: the words whose lemma is
\* a marked text
UnfamiliarMatched(unf) == {w \in WordIds : w \in unf}

get_smart_session_composition(st, daily_goal, now) ==
    LET unfamiliar_count == Min(1000, Cardinality(UnfamiliarMatched(st.unfamiliar)))
        struggling_count == Cardinality(Struggling(st.user_words))
        due_count == Cardinality(DueReview(st.user_words, now))
        unseen_count == NumWords - Cardinality(Seen(st.user_words))
        u0 == Min(IntPct(daily_goal, 25), unfamiliar_count)
        s0 == Min(IntPct(daily_goal, 30), struggling_count)
        d0 == Min(IntPct(daily_goal, 30), due_count)
        n0 == Min(IntPct(daily_goal, 15), unseen_count)
        r0 == daily_goal - (u0 + s0 + d0 + n0)
        eu == IF r0 > 0 /\ unfamiliar_count > u0 THEN Min(r0, unfamiliar_count - u0) ELSE 0
        r1 == r0 - eu
        es == IF r0 > 0 /\ r1 > 0 /\ struggling_count > s0
              THEN Min(r1, struggling_count - s0) ELSE 0
        r2 == r1 - es
        ed == IF r0 > 0 /\ r2 > 0 /\ due_count > d0 THEN Min(r2, due_count - d0) ELSE 0
        r3 == r2 - ed
        en == IF r0 > 0 /\ r3 > 0 /\ unseen_count > n0 THEN Min(r3, unseen_count - n0) ELSE 0
        r4 == r3 - en
    IN  [unfamiliar |-> u0 + eu,
         struggling |-> s0 + es,
         due_review |-> d0 + ed + (IF r0 > 0 /\ r4 > 0 THEN r4 ELSE 0),
         new |-> n0 + en]

\* the rows a query with limit k may return: any k of them, ...
AnyLimit(S, k) == {T \in SUBSET S : Cardinality(T) = Min(k, Cardinality(S))}

\* ... the k earliest due, ties broken either way, ...
LimitByNextDue(S, k, uws) ==
    {T \in AnyLimit(S, k) :
        \A a \in T : \A b \in S \ T : RLeq(uws[a].next_due, uws[b].next_due)}

\* ... the k lowest ids
LimitById(S, k) == {w \in S : Cardinality({v \in S : v < w}) < k}

\* the rows of a query as a list, in the order the query gave them
ListOf(S) ==
    CHOOSE q \in [1..Cardinality(S) -> S] : \A i, j \in 1..Cardinality(S) : q[i] = q[j] => i = j

\* random.shuffle(queue_words): the entries of the list in every order
Shuffles(items) ==
    {[i \in 1..Len(items) |-> items[p[i]]] :
        p \in {q \in [1..Len(items) -> 1..Len(items)] :
                  \A i, j \in 1..Len(items) : q[i] = q[j] => i = j}}

\* mutant: the queries do not leave out the words already chosen
NotIn_NoFilter(S, excluded) == S

\* ~Word.id.in_([w.id for w in queue_words])
NotIn(S, excluded) == S \ excluded

\* the queues create_vocab_session may build
create_vocab_session(st, goal_remaining, now) ==
    LET batch_size == Max(Min(IF goal_remaining > 0 THEN goal_remaining ELSE 20, 100), 10)
        c == get_smart_session_composition(st, batch_size, now)
        uws == st.user_words
    IN  UNION {
          UNION {
            UNION {
              Shuffles(ListOf(U) \o ListOf(S) \o ListOf(D)
                       \o ListOf(LimitById(NotIn(WordIds \ Seen(uws), U \cup S \cup D),
                                           c.new)))
              : D \in LimitByNextDue(NotIn(DueReview(uws, now), U \cup S),
                                     c.due_review, uws) }
            : S \in LimitByNextDue(NotIn(Struggling(uws), U), c.struggling, uws) }
          : U \in AnyLimit(UnfamiliarMatched(st.unfamiliar), c.unfamiliar) }

NewSession(queue) ==
    [exists |-> TRUE, queue |-> queue, queue_ids |-> {queue[i] : i \in 1..Len(queue)},
     seen |-> {}, normalized |-> FALSE]

\* ---- the handlers as actions -------------------------------------------------
Handled(op, input, r, now) ==
    /\ user_words' = r.user_words
    /\ review_log' = r.review_log
    /\ unfamiliar' = r.unfamiliar
    /\ session' = r.session
    /\ last' = [op |-> op, input |-> input, status |-> r.status, error |-> r.error,
                now |-> now, before |-> AppState]
    /\ nops' = nops + 1
    /\ UNCHANGED <<clock, schedvars, concvars>>

GradeCard(word_id, grade) ==
    /\ nops < MaxOps
    /\ Handled("grade_card", [word_id |-> word_id, grade |-> grade],
               grade_card(AppState, word_id, grade, clock), clock)

AddUnfamiliarWord(text) ==
    /\ nops < MaxOps
    /\ Handled("add_unfamiliar_word", [text |-> text],
               add_unfamiliar_word(AppState, text, clock), clock)

RemoveUnfamiliarWord(text) ==
    /\ nops < MaxOps
    /\ text \in unfamiliar
    /\ Handled("remove_unfamiliar_word", [text |-> text],
               remove_unfamiliar_word(AppState, text), clock)

\* compute_schedule called on the stored record of a word with a grade that
\* is none of the three (grade_card never does so: it answers 400 first)
ComputeScheduleBadGrade(word_id) ==
    /\ nops < MaxOps
    /\ LET r == try_compute_schedule(user_words[word_id], BadGrade, clock)
       IN  /\ user_words' = [user_words EXCEPT ![word_id] = r.user_word]
           /\ last' = [op |-> "compute_schedule",
                       input |-> [word_id |-> word_id, grade |-> BadGrade],
                       status |-> 500, error |-> r.raised,
                       now |-> clock, before |-> AppState]
    /\ nops' = nops + 1
    /\ UNCHANGED <<review_log, unfamiliar, session, clock, schedvars, concvars>>

\* GET /session: a session is created when there is none or its queue is
\* empty, unless the daily goal is met; the page then normalizes it
VocabSession ==
    LET total == Len(review_log)
        remaining == Max(DailyGoal - total, 0)
        goal_met == DailyGoal > 0 /\ remaining <= 0
    IN  /\ ~goal_met
        /\ IF session = NoSession THEN TRUE ELSE session.queue = <<>>
        /\ \E queue \in create_vocab_session(AppState, remaining, clock) :
              session' = NormalizeSession(NewSession(queue))
        /\ last' = [op |-> "vocab_session", input |-> [remaining |-> remaining],
                    status |-> 200, error |-> None, now |-> clock, before |-> AppState]
        /\ UNCHANGED <<user_words, review_log, unfamiliar, nops, clock, schedvars, concvars>>

AppTick ==
    /\ clock < MaxAppClock
    /\ clock' = clock + 1
    /\ UNCHANGED <<schedvars, appvars, concvars>>

InitApp ==
    /\ user_word = NoUserWord
    /\ clock = 0
    /\ call = NoCall
    /\ ngrades = 0
    /\ twin = NoTwin
    /\ since_fail = <<>>
    /\ AppInit

NextApp ==
    \/ VocabSession
    \/ \E word_id \in WordIds \cup {NoWordId} : \E grade \in RequestGrades :
          GradeCard(word_id, grade)
    \/ \E text \in Texts : AddUnfamiliarWord(text)
    \/ \E text \in Texts : RemoveUnfamiliarWord(text)
    \/ \E word_id \in WordIds : ComputeScheduleBadGrade(word_id)
    \/ AppTick

SpecApp == InitApp /\ [][NextApp]_vars

\* ---- the claims ----------------------------------------------------------
Called == call # NoCall
PriorAbsent == call.prior = NoUserWord
PriorRepetitions == IF PriorAbsent THEN 0 ELSE call.prior.repetitions
PriorLastGrade == IF PriorAbsent THEN None ELSE call.prior.last_grade
Offset == RSub(call.next_due, Rat(call.now, 1))

\* C1: after every compute_schedule call of any sequence of grades applied
\* to a new record, the stored easiness is at least 1.3.
C1_EasinessFloor ==
    user_word # NoUserWord => RLeq(Rat(13, 10), user_word.easiness)

\* a "not" on easiness 1.5, where 1.5 - 0.25 is under the floor
C1_Witness ==
    /\ Called /\ call.grade = "not" /\ ~PriorAbsent
    /\ call.prior.easiness = Rat(3, 2)
    /\ user_word.easiness = Rat(13, 10)

\* C2: the next_due a call returns and stores is never before the time of
\* the grading, whatever the prior record and the grade.
C2_DueNotBeforeNow ==
    Called => /\ RLeq(Rat(call.now, 1), call.next_due)
              /\ user_word.next_due = call.next_due

\* a "not" graded after the clock moved, due strictly later than now
C2_Witness ==
    /\ Called /\ call.grade = "not" /\ call.now > 0
    /\ RLess(Rat(call.now, 1), call.next_due)

C4_AbsentAsDefault ==
    Called /\ PriorAbsent =>
        LET r == compute_schedule(DefaultUserWord(call.now), call.grade, call.now)
        IN  /\ user_word = r.user_word
            /\ call.next_due = r.next_due
            /\ (call.grade = "not" => Offset = Minutes(3))
            /\ (call.grade = "barely" =>
                    Offset = Minutes(30) /\ user_word.interval = Rat(1, 5))

\* C5: a "not" leaves repetitions = 0 and interval = 0.0, whatever the record.
C5_NotResets ==
    Called /\ call.grade = "not" =>
        user_word.repetitions = 0 /\ user_word.interval = Rat(0, 1)

\* a "not" on a record that had progressed
C5_Witness ==
    /\ Called /\ call.grade = "not" /\ PriorRepetitions >= 2
    /\ RLess(Rat(0, 1), call.prior.interval)
    /\ user_word.repetitions = 0

\* C6: a "barely" leaves repetitions = max(1, prior repetitions).
C6_BarelyKeepsRepetitions ==
    Called /\ call.grade = "barely" =>
        user_word.repetitions = IF PriorRepetitions > 1 THEN PriorRepetitions ELSE 1

\* a "barely" on a record with two repetitions
C6_Witness ==
    Called /\ call.grade = "barely" /\ PriorRepetitions = 2 /\ user_word.repetitions = 2

\* C7: a "recognize" leaves repetitions = prior repetitions + 1, an absent
\* record counting as 0.
C7_RecognizeIncrements ==
    Called /\ call.grade = "recognize" =>
        user_word.repetitions = PriorRepetitions + 1

\* a "recognize" on a record with three repetitions
C7_Witness ==
    Called /\ call.grade = "recognize" /\ PriorRepetitions = 3 /\ user_word.repetitions = 4

\* the interval table of the first three repetitions, as the claim states it
C8_Table(recovering, repetitions) ==
    IF recovering
    THEN CASE repetitions = 1 -> Rat(1, 2)
           [] repetitions = 2 -> Rat(3, 2)
           [] repetitions = 3 -> Rat(3, 1)
    ELSE CASE repetitions = 1 -> Rat(1, 1)
           [] repetitions = 2 -> Rat(3, 1)
           [] repetitions = 3 -> Rat(7, 1)

\* C8: a "recognize" that brings repetitions to 1, 2 or 3 sets the interval
\* to 0.5 / 1.5 / 3.0 days when the last grade was "barely" or "not" and to
\* 1.0 / 3.0 / 7.0 days otherwise, and next_due = now + interval.
C8_RecognizeTable ==
    Called /\ call.grade = "recognize" /\ user_word.repetitions <= 3 =>
        /\ user_word.interval =
              C8_Table(PriorLastGrade \in {"barely", "not"}, user_word.repetitions)
        /\ call.next_due = RAdd(Rat(call.now, 1), Days(user_word.interval))
        /\ user_word.next_due = call.next_due

\* a comeback "recognize" that reaches repetitions 3
C8_Witness ==
    /\ Called /\ call.grade = "recognize" /\ PriorLastGrade = "barely"
    /\ user_word.repetitions = 3 /\ user_word.interval = Rat(3, 1)

\* C9: a "recognize" that brings repetitions to 4 or more sets the interval
\* to max(1.0, prior interval * prior easiness), last grade "barely" / "not"
\* or not, with the easiness from before the call; no call runs line 59.
C9_RecognizeMultiplies ==
    /\ Called /\ call.grade = "recognize" /\ user_word.repetitions >= 4 =>
          /\ user_word.interval =
                RMax(Rat(1, 1), RMul(call.prior.interval, call.prior.easiness))
          /\ call.line = 69
    /\ Called => call.line # 59

\* a "recognize" after a "barely" that reaches repetitions 4
C9_Witness ==
    /\ Called /\ call.grade = "recognize" /\ PriorLastGrade = "barely"
    /\ user_word.repetitions = 4

\* C10: a "not" is due 1 minute after now when the last grade was "not",
\* 2 minutes when it was "barely", 3 minutes otherwise ("recognize" or none).
C10_NotOffset ==
    Called /\ call.grade = "not" =>
        Offset = CASE PriorLastGrade = "not" -> Minutes(1)
                   [] PriorLastGrade = "barely" -> Minutes(2)
                   [] OTHER -> Minutes(3)

\* C11: a "barely" after a "barely" is due in 10 minutes with interval 0.1
\* days; a "barely" after any other last grade (or none) is due in 30 minutes
\* with interval 0.2 days.
C11_BarelyLoop ==
    Called /\ call.grade = "barely" =>
        IF PriorLastGrade = "barely"
        THEN Offset = Minutes(10) /\ user_word.interval = Rat(1, 10)
        ELSE Offset = Minutes(30) /\ user_word.interval = Rat(1, 5)

PriorEasiness == IF PriorAbsent THEN Rat(5, 2) ELSE call.prior.easiness
AllRecognize == \A i \in 1..Len(since_fail) : since_fail[i] = "recognize"

\* C12: "recognize" adds exactly 0.1 to easiness with no upper clamp (k
\* "recognize" grades in a row from a new record give 2.5 + 0.1 * k),
\* "barely" gives max(1.3, e - 0.15), "not" gives max(1.3, e - 0.25).
C12_EasinessTransition ==
    /\ Called =>
          user_word.easiness =
            CASE call.grade = "recognize" -> RAdd(PriorEasiness, Rat(1, 10))
              [] call.grade = "barely" ->
                   RMax(Rat(13, 10), RSub(PriorEasiness, Rat(3, 20)))
              [] call.grade = "not" ->
                   RMax(Rat(13, 10), RSub(PriorEasiness, Rat(1, 4)))
    /\ Called /\ AllRecognize /\ Len(since_fail) = ngrades =>
          user_word.easiness = RAdd(Rat(5, 2), Rat(ngrades, 10))

\* five "recognize" in a row: easiness 3.0, above its starting value
C12_Witness ==
    /\ Called /\ AllRecognize /\ Len(since_fail) = 5 /\ ngrades = 5
    /\ user_word.easiness = Rat(3, 1)

\* C13: after every call the record's last_grade is the grade just applied.
C13_LastGradeTracked ==
    Called => user_word.last_grade = call.grade

\* a call whose grade differs from the last grade of the record it was given
C13_Witness ==
    /\ Called /\ ~PriorAbsent /\ call.prior.last_grade = "recognize"
    /\ call.grade = "barely" /\ user_word.last_grade = "barely"

Count(seq, g) == Cardinality({i \in 1..Len(seq) : seq[i] = g})

\* C15 (as stated): repetitions is the number of "recognize" grades since
\* the most recent "not" (or since creation).
C15_RepetitionsCountRecognize ==
    Called => user_word.repetitions = Count(since_fail, "recognize")

\* C15 (amended): repetitions is the number of "recognize" grades since the
\* most recent "not" (or since creation), plus one when the first grade
\* since then was a "barely".
C15_RepetitionsCountRecognizeAndLeadingBarely ==
    Called =>
        user_word.repetitions =
            Count(since_fail, "recognize")
            + (IF since_fail # <<>> /\ Head(since_fail) = "barely" THEN 1 ELSE 0)

\* a "barely" first, "recognize" grades after it
C15_Witness ==
    /\ Called /\ since_fail # <<>> /\ Head(since_fail) = "barely"
    /\ Count(since_fail, "recognize") = 2 /\ user_word.repetitions = 3

\* C16: after any sequence of grades the record has interval >= 0 and
\* repetitions >= 0.
C16_NonNegative ==
    user_word # NoUserWord =>
        RLeq(Rat(0, 1), user_word.interval) /\ user_word.repetitions >= 0

\* a "not" on a record that has no repetitions left to lose
C16_Witness ==
    /\ Called /\ call.grade = "not" /\ PriorRepetitions = 0
    /\ user_word.repetitions = 0 /\ user_word.interval = Rat(0, 1)

\* ---- grade_card requests handled at the same time ----------------------------
\* app.run serves each request in a thread of its own, with a database session
\* of its own; no lock, no SELECT ... FOR UPDATE and no version column guards
\* the row of user_words, and active_sessions is shared by the threads.

\* the word both requests grade
ConcWord == 1
\* a second word, behind it in the session queue
NextWord == 2

\* the rows a graded word can have when the requests arrive
StartRecords ==
    { compute_schedule(DefaultUserWord(0), g, 0).user_word : g \in GradeCardGrades }

\* db.session.commit(): the UPDATE sets the columns whose value differs from
\* the value this session loaded, and leaves the other columns of the row
Flush(row, loaded, updated) ==
    [f \in DOMAIN updated |-> IF updated[f] # loaded[f] THEN updated[f] ELSE row[f]]

\* a thread takes the request, finds the session, accepts the grade and
\* loads the record of the word
GradeCardRead(t, grade) ==
    /\ requests[t] = Idle
    /\ session # NoSession
    /\ requests' = [requests EXCEPT ![t] =
                      [pc |-> "loaded", grade |-> grade,
                       loaded |-> get_or_create_user_word(user_words, ConcWord, clock)]]
    /\ session' = NormalizeSession(session)
    /\ UNCHANGED <<user_words, review_log, unfamiliar, last, nops, start, rows, gemini, reading, clock, schedvars>>

\* the thread computes the schedule on the record it loaded, logs the review
\* and commits
GradeCardCommit(t) ==
    /\ requests[t].pc = "loaded"
    /\ LET req == requests[t]
           was_new == req.loaded.repetitions = 0
           updated == compute_schedule(req.loaded, req.grade, clock).user_word
           entry == log_review(ConcWord, req.grade, was_new,
                               updated.easiness, updated.interval, clock)
       IN  /\ user_words' = [user_words EXCEPT
                               ![ConcWord] = Flush(@, req.loaded, updated)]
           /\ review_log' = Append(review_log, entry)
           /\ requests' = [requests EXCEPT ![t] =
                             [pc |-> "committed", grade |-> req.grade, now |-> clock]]
    /\ UNCHANGED <<unfamiliar, session, last, nops, start, rows, gemini, reading, clock, schedvars>>

\* the thread updates the session queue and answers
GradeCardRequeue(t) ==
    /\ requests[t].pc = "committed"
    /\ session' = UpdateQueue(session, requests[t].grade)
    /\ requests' = [requests EXCEPT ![t] = [@ EXCEPT !.pc = "done"]]
    /\ UNCHANGED <<user_words, review_log, unfamiliar, last, nops, start, rows, gemini, reading, clock, schedvars>>

ConcTick ==
    /\ clock < MaxConcClock
    /\ clock' = clock + 1
    /\ UNCHANGED <<schedvars, appvars, concvars>>

InitConc ==
    /\ user_word = NoUserWord
    /\ clock = 0
    /\ call = NoCall
    /\ ngrades = 0
    /\ twin = NoTwin
    /\ since_fail = <<>>
    /\ start \in StartRecords
    /\ user_words = [w \in WordIds |-> IF w = ConcWord THEN start ELSE NoUserWord]
    /\ review_log = <<>>
    /\ unfamiliar = {}
    /\ session = NewSession(<<ConcWord, NextWord>>)
    /\ last = NoRequest
    /\ nops = 0
    /\ requests = [t \in Threads |-> Idle]
    /\ rows = <<>>
    /\ gemini = NoClient
    /\ reading = NoReading

NextConc ==
    \/ \E t \in Threads : \E grade \in GradeCardGrades : GradeCardRead(t, grade)
    \/ \E t \in Threads : GradeCardCommit(t)
    \/ \E t \in Threads : GradeCardRequeue(t)
    \/ ConcTick

SpecConc == InitConc /\ [][NextConc]_vars

\* ---- get_or_create_user_word, row by row -------------------------------------
\* The table user_words as the rows it holds.  A row inserted by flush() is
\* seen by its own thread only, until that thread commits.

\* the rows of a word that thread t can see
Visible(t, word_id) ==
    {i \in 1..Len(rows) : rows[i].word_id = word_id /\ rows[i].owner \in {None, t}}

\* an INSERT waits while another transaction holds an uncommitted row with
\* the same key of uq_user_word
InsertWaits(t, word_id) ==
    \E i \in 1..Len(rows) : rows[i].word_id = word_id /\ rows[i].owner \notin {None, t}

\* mutant: the table has no unique constraint
UniqueViolation_NoConstraint(t, word_id) == FALSE

\* UniqueConstraint('user_id', 'word_id'): the INSERT of a second row of the
\* pair fails
UniqueViolation(t, word_id) == Visible(t, word_id) # {}

CreateOps == {"grade_card", "add_unfamiliar_word"}

\* UserWord.query.filter_by(user_id, word_id).first(), on behalf of a
\* grade_card or an add_unfamiliar_word request for the word
CreateQuery(t, op, word_id, grade) ==
    /\ nops < MaxCreateCalls
    /\ requests[t] = Idle
    /\ op = "add_unfamiliar_word" => word_id \notin unfamiliar /\ grade = "not"
    /\ LET found == Visible(t, word_id)
       IN  requests' = [requests EXCEPT ![t] =
             IF found = {}
             THEN [pc |-> "missing", op |-> op, word_id |-> word_id, grade |-> grade]
             ELSE [pc |-> "loaded", op |-> op, word_id |-> word_id, grade |-> grade,
                   loaded |-> rows[CHOOSE i \in found : \A j \in found : i <= j].rec]]
    /\ nops' = nops + 1
    /\ UNCHANGED <<user_words, review_log, unfamiliar, session, last, start, rows,
                   gemini, reading, clock, schedvars>>

\* db.session.add(user_word); db.session.flush(): the INSERT
CreateFlush(t) ==
    /\ requests[t].pc = "missing"
    /\ ~InsertWaits(t, requests[t].word_id)
    /\ IF UniqueViolation(t, requests[t].word_id)
       THEN /\ requests' = [requests EXCEPT ![t] =
                              [pc |-> "failed", error |-> "IntegrityError",
                               word_id |-> requests[t].word_id]]
            /\ rows' = rows
       ELSE /\ rows' = Append(rows, [word_id |-> requests[t].word_id, owner |-> t,
                                     rec |-> DefaultUserWord(clock)])
            /\ requests' = [requests EXCEPT ![t] =
                              [@ EXCEPT !.pc = "loaded"] @@ [loaded |-> DefaultUserWord(clock)]]
    /\ UNCHANGED <<user_words, review_log, unfamiliar, session, last, nops, start,
                   gemini, reading, clock, schedvars>>

\* the rest of the handler: the record is rescheduled and logged, or reset
\* and its word marked; db.session.commit(); grade_card updates the queue
CreateCommit(t) ==
    /\ requests[t].pc = "loaded"
    /\ LET req == requests[t]
           updated ==
               IF req.op = "grade_card"
               THEN compute_schedule(req.loaded, req.grade, clock).user_word
               ELSE [req.loaded EXCEPT
                       !.repetitions = 0,
                       !.interval = Rat(0, 1),
                       !.easiness = RMax(Rat(13, 10), RSub(req.loaded.easiness, Rat(3, 10))),
                       !.next_due = Rat(clock, 1),
                       !.last_grade = "not"]
       IN  /\ rows' = [i \in 1..Len(rows) |->
                         IF rows[i].word_id = req.word_id /\ rows[i].owner \in {None, t}
                         THEN [word_id |-> req.word_id, owner |-> None,
                               rec |-> Flush(rows[i].rec, req.loaded, updated)]
                         ELSE rows[i]]
           /\ review_log' =
                 IF req.op = "grade_card"
                 THEN Append(review_log,
                             log_review(req.word_id, req.grade, req.loaded.repetitions = 0,
                                        updated.easiness, updated.interval, clock))
                 ELSE review_log
           /\ unfamiliar' = IF req.op = "add_unfamiliar_word"
                            THEN unfamiliar \cup {req.word_id} ELSE unfamiliar
           /\ session' = IF req.op = "grade_card"
                         THEN UpdateQueue(session, req.grade) ELSE session
           /\ requests' = [requests EXCEPT ![t] =
                             [pc |-> "done", word_id |-> req.word_id]]
    /\ UNCHANGED <<user_words, last, nops, start, gemini, reading, clock, schedvars>>

\* the thread answers (a failed one after the rollback of the 500 handler)
\* and is free for the next request
CreateAnswer(t) ==
    /\ requests[t].pc \in {"done", "failed"}
    /\ requests' = [requests EXCEPT ![t] = Idle]
    /\ UNCHANGED <<user_words, review_log, unfamiliar, session, last, nops, start, rows,
                   gemini, reading, clock, schedvars>>

\* no row yet, and a session whose queue holds two words
InitCreate ==
    /\ user_word = NoUserWord
    /\ clock = 0
    /\ call = NoCall
    /\ ngrades = 0
    /\ twin = NoTwin
    /\ since_fail = <<>>
    /\ user_words = [w \in WordIds |-> NoUserWord]
    /\ review_log = <<>>
    /\ unfamiliar = {}
    /\ session = NormalizeSession(NewSession(<<ConcWord, NextWord>>))
    /\ last = NoRequest
    /\ nops = 0
    /\ requests = [t \in Threads |-> Idle]
    /\ start = NoUserWord
    /\ rows = <<>>
    /\ gemini = NoClient
    /\ reading = NoReading

NextCreate ==
    \/ \E t \in Threads : \E op \in CreateOps : \E word_id \in {ConcWord, NextWord} :
          \E grade \in GradeCardGrades : CreateQuery(t, op, word_id, grade)
    \/ \E t \in Threads : CreateFlush(t)
    \/ \E t \in Threads : CreateCommit(t)
    \/ \E t \in Threads : CreateAnswer(t)

SpecCreate == InitCreate /\ [][NextCreate]_vars

\* ---- compute_schedule on the records of two words ---------------------------
\* mutant: the last grade is kept per user, so a "not" on any word of the
\* user counts as the last grade of the word scheduled
ScheduleItem_UserLastGrade(uws, word_id, grade, now) ==
    LET failed == \E v \in WordIds \ {word_id} :
                      IF uws[v] = NoUserWord THEN FALSE ELSE uws[v].last_grade = "not"
        uw == IF failed THEN [uws[word_id] EXCEPT !.last_grade = "not"] ELSE uws[word_id]
    IN  [uws EXCEPT ![word_id] = compute_schedule(uw, grade, now).user_word]

\* compute_schedule on the record of one word: it reads and writes that
\* record, GRADE_SCORES and the clock, and nothing else
ScheduleItem(uws, word_id, grade, now) ==
    [uws EXCEPT ![word_id] = compute_schedule(uws[word_id], grade, now).user_word]

\* the records two words can have when they are scheduled
PairRecords == StartRecords \cup {DefaultUserWord(0)}

\* word A is graded at time_a and word B at time_b, in either order
SchedulePair(grade_a, grade_b, time_a, time_b) ==
    /\ nops < MaxOps
    /\ LET a_then_b == ScheduleItem(ScheduleItem(user_words, ConcWord, grade_a, time_a),
                                    NextWord, grade_b, time_b)
           b_then_a == ScheduleItem(ScheduleItem(user_words, NextWord, grade_b, time_b),
                                    ConcWord, grade_a, time_a)
       IN  /\ user_words' = a_then_b
           /\ last' = [op |-> "schedule_pair",
                       input |-> [grade_a |-> grade_a, grade_b |-> grade_b,
                                  time_a |-> time_a, time_b |-> time_b],
                       a_then_b |-> a_then_b, b_then_a |-> b_then_a,
                       before |-> AppState]
    /\ nops' = nops + 1
    /\ clock' = Max(time_a, time_b)
    /\ UNCHANGED <<review_log, unfamiliar, session, schedvars, concvars>>

InitPair ==
    /\ user_word = NoUserWord
    /\ clock = 0
    /\ call = NoCall
    /\ ngrades = 0
    /\ twin = NoTwin
    /\ since_fail = <<>>
    /\ \E a \in PairRecords : \E b \in PairRecords :
          user_words = [w \in WordIds |-> IF w = ConcWord THEN a
                                         ELSE IF w = NextWord THEN b ELSE NoUserWord]
    /\ review_log = <<>>
    /\ unfamiliar = {}
    /\ session = NoSession
    /\ last = NoRequest
    /\ nops = 0
    /\ requests = [t \in Threads |-> Idle]
    /\ start = NoUserWord
    /\ rows = <<>>
    /\ gemini = NoClient
    /\ reading = NoReading

NextPair ==
    \E grade_a \in Grades : \E grade_b \in Grades :
        \E time_a \in clock..MaxAppClock : \E time_b \in clock..MaxAppClock :
            SchedulePair(grade_a, grade_b, time_a, time_b)

SpecPair == InitPair /\ [][NextPair]_vars

\* ---- GeminiClient.generate_json ----------------------------------------------
MAX_RETRIES == 5
RETRY_STATUS_CODES == {408, 409, 429, 500, 502, 503, 504}

\* model names: GEMINI_MODEL, GEMINI_FALLBACK_MODEL (which may be set to the
\* empty string) and model_override
FlashLite == "gemini-2.5-flash-lite"
Flash == "gemini-2.5-flash"
Models == {FlashLite, Flash}
NoModel == ""

\* the text of a part: none, a JSON document, prose that holds no JSON
NoText == ""
JsonText == "{\"ok\": true}"
ProseText == "Sorry, no."
Texts_ == {NoText, JsonText, ProseText}
FinishReasons == {"STOP", "MAX_TOKENS"}

\* the bodies a 200 response can carry: its candidates, each a finish reason
\* and the text of its parts; a body that is not JSON counts as {}
Bodies ==
    {<<>>}
    \cup {<<[finishReason |-> f, text |-> x]>> : f \in FinishReasons, x \in Texts_}
    \cup {<<[finishReason |-> "MAX_TOKENS", text |-> NoText],
            [finishReason |-> "STOP", text |-> JsonText]>>}

\* the status codes of an HTTPError: one that is retried, one that is not,
\* and an error without a response
NoStatus == 0
StatusCodes == {429, 400, NoStatus}

\* what one requests.post and raise_for_status can do
Outcomes ==
    {[kind |-> "ok", candidates |-> b] : b \in Bodies}
    \cup {[kind |-> "HTTPError", status_code |-> c] : c \in StatusCodes}
    \cup {[kind |-> "Timeout"], [kind |-> "Exception"]}

\* _extract_text_and_finish_reason: the text of the first candidate that has
\* text, with its finish reason; else no text and the first finish reason
RECURSIVE FirstWithText(_, _)
FirstWithText(candidates, i) ==
    IF i > Len(candidates) THEN 0
    ELSE IF candidates[i].text # NoText THEN i
    ELSE FirstWithText(candidates, i + 1)

_extract_text_and_finish_reason(candidates) ==
    IF candidates = <<>> THEN [text |-> NoText, finish_reason |-> None]
    ELSE LET i == FirstWithText(candidates, 1)
         IN  IF i > 0
             THEN [text |-> candidates[i].text, finish_reason |-> candidates[i].finishReason]
             ELSE [text |-> NoText, finish_reason |-> candidates[1].finishReason]

\* _robust_parse_json on the texts above
ParsedJson == "{'ok': True}"
_robust_parse_json(text) == IF text = JsonText THEN ParsedJson ELSE None

\* max_attempts = 1 if disable_retries else self.MAX_RETRIES
MaxAttempts(disable_retries) == IF disable_retries THEN 1 ELSE MAX_RETRIES

\* mutant: attempt < max_attempts for attempt < max_attempts - 1
ShouldRetry_OffByOne(outcome, attempt, max_attempts) ==
    IF outcome.kind = "HTTPError"
    THEN outcome.status_code \in RETRY_STATUS_CODES /\ attempt < max_attempts
    ELSE attempt < max_attempts

\* the tests of the except clauses of _request
ShouldRetry(outcome, attempt, max_attempts) ==
    IF outcome.kind = "HTTPError"
    THEN outcome.status_code \in RETRY_STATUS_CODES /\ attempt < max_attempts - 1
    ELSE attempt < max_attempts - 1

\* mutant: the fallback is not compared with the primary model
ShouldFallback_SameModel(text, finish_reason, enabled, fallback_model, primary_model) ==
    /\ text = NoText
    /\ finish_reason = "MAX_TOKENS"
    /\ enabled
    /\ fallback_model # NoModel

\* the two tests that guard the second _request
ShouldFallback(text, finish_reason, enabled, fallback_model, primary_model) ==
    /\ text = NoText
    /\ finish_reason = "MAX_TOKENS"
    /\ enabled
    /\ fallback_model # NoModel /\ fallback_model # primary_model

\* no response yet, no POST yet, no result yet
NoData == [text |-> None, finish_reason |-> None]
NoPost == [did |-> None]
NoResult == [kind |-> None]

\* the end of generate_json on the data of the last _request
Returned(g, extracted) ==
    [g EXCEPT !.pc = "done",
              !.result = [kind |-> "return",
                          value |-> IF extracted.text = NoText THEN None
                                    ELSE _robust_parse_json(extracted.text)]]

\* GeminiClient(): a client that serves no call
Client(is_configured, model, fallback_model, enabled) ==
    [pc |-> "idle",
     is_configured |-> is_configured,
     model |-> model,
     fallback_model |-> fallback_model,
     enable_fallback_on_max_tokens |-> enabled,
     model_override |-> None,
     disable_retries |-> FALSE,
     phase |-> "primary",
     with_model |-> model,
     attempt |-> 0,
     posts |-> [primary |-> 0, fallback |-> 0],
     models |-> <<>>,
     fallback_requests |-> 0,
     primary |-> NoData,
     fallback |-> NoData,
     last_post |-> NoPost,
     result |-> NoResult]

\* the settings a client can get from the environment
Clients ==
    {Client(is_configured, model, fallback_model, enabled) :
        is_configured \in BOOLEAN, model \in Models,
        fallback_model \in Models \cup {NoModel}, enabled \in BOOLEAN}

\* generate_json up to its first _request
StartCall(client, model_override, disable_retries) ==
    LET g == [client EXCEPT !.model_override = model_override,
                            !.disable_retries = disable_retries]
    IN  IF ~g.is_configured
        THEN [g EXCEPT !.pc = "done", !.result = [kind |-> "return", value |-> None]]
        ELSE [g EXCEPT !.pc = "request",
                       !.with_model = IF model_override = None THEN g.model
                                      ELSE model_override]

\* generate_json is called on a client that serves no call
GenerateJson(model_override, disable_retries) ==
    /\ gemini.pc = "idle"
    /\ gemini' = StartCall(gemini, model_override, disable_retries)
    /\ UNCHANGED <<clock, schedvars, appvars, requests, start, rows, reading>>

\* one turn of the loop of _request: a POST, and what the loop does with its
\* outcome; when _request returns or raises, generate_json runs on
Post(outcome) ==
    /\ gemini.pc = "request"
    /\ gemini' =
          LET max_attempts == MaxAttempts(gemini.disable_retries)
              g == [gemini EXCEPT
                      !.posts = [@ EXCEPT ![gemini.phase] = @ + 1],
                      !.models = @ \o <<gemini.with_model>>]
              after(data) ==
                  LET x == _extract_text_and_finish_reason(data)
                      primary_model == IF g.model_override = None THEN g.model
                                       ELSE g.model_override
                  IN  IF g.phase = "primary"
                      THEN LET g1 == [g EXCEPT !.primary = x]
                           IN  IF ShouldFallback(x.text, x.finish_reason,
                                                 g.enable_fallback_on_max_tokens,
                                                 g.fallback_model, primary_model)
                               THEN [g1 EXCEPT !.phase = "fallback",
                                               !.with_model = g.fallback_model,
                                               !.attempt = 0,
                                               !.fallback_requests = @ + 1]
                               ELSE Returned(g1, x)
                      ELSE Returned([g EXCEPT !.fallback = x], x)
          IN  IF outcome.kind = "ok"
              THEN [after(outcome.candidates) EXCEPT
                      !.last_post = [outcome |-> outcome, attempt |-> gemini.attempt,
                                     did |-> "return"]]
              ELSE IF ShouldRetry(outcome, gemini.attempt, max_attempts)
              THEN IF gemini.attempt + 1 < max_attempts
                   THEN [g EXCEPT !.attempt = @ + 1,
                                  !.last_post = [outcome |-> outcome,
                                                 attempt |-> gemini.attempt,
                                                 did |-> "retry"]]
                   ELSE [after(<<>>) EXCEPT
                           !.last_post = [outcome |-> outcome,
                                          attempt |-> gemini.attempt,
                                          did |-> "return"]]
              ELSE [g EXCEPT !.pc = "done",
                             !.result = [kind |-> "raise", error |-> outcome.kind],
                             !.last_post = [outcome |-> outcome,
                                            attempt |-> gemini.attempt,
                                            did |-> "raise"]]
    /\ UNCHANGED <<clock, schedvars, appvars, requests, start, rows, reading>>

\* GeminiClient(): the settings come from the environment
InitGemini ==
    /\ user_word = NoUserWord
    /\ clock = 0
    /\ call = NoCall
    /\ ngrades = 0
    /\ twin = NoTwin
    /\ since_fail = <<>>
    /\ user_words = [w \in WordIds |-> NoUserWord]
    /\ review_log = <<>>
    /\ unfamiliar = {}
    /\ session = NoSession
    /\ last = NoRequest
    /\ nops = 0
    /\ requests = [t \in Threads |-> Idle]
    /\ start = NoUserWord
    /\ rows = <<>>
    /\ reading = NoReading
    /\ gemini \in Clients

NextGemini ==
    \/ \E model_override \in Models \cup {None} : \E disable_retries \in BOOLEAN :
          GenerateJson(model_override, disable_retries)
    \/ \E outcome \in Outcomes : Post(outcome)

SpecGemini == InitGemini /\ [][NextGemini]_vars

\* a POST that was sent is answered or fails
SpecGeminiFair == SpecGemini /\ WF_vars(\E outcome \in Outcomes : Post(outcome))

\* ---- reading_content: get_sentence, get_paragraph, get_passage ---------------
ReadingKinds == {"sentence", "paragraph", "passage"}

\* the key of an item that holds its content
ContentKey(kind) ==
    CASE kind = "sentence" -> "text"
      [] kind = "paragraph" -> "paragraph"
      [] kind = "passage" -> "paragraphs"

\* the seed file of a kind, as it can be found on disk: missing, not JSON,
\* JSON that is no list, or a list of items
SeedItems == {[id |-> "seed_1", content |-> "Seed one."],
              [id |-> "seed_2", content |-> "Seed two."]}
SeedFiles ==
    {[state |-> "missing", items |-> <<>>],
     [state |-> "invalid", items |-> <<>>],
     [state |-> "object", items |-> <<>>],
     [state |-> "list", items |-> <<>>]}
    \cup {[state |-> "list", items |-> <<a>>] : a \in SeedItems}
    \cup {[state |-> "list", items |-> <<ab[1], ab[2]>>] :
             ab \in {p \in SeedItems \X SeedItems : p[1] # p[2]}}

_load_fallback(file) == IF file.state = "list" THEN file.items ELSE <<>>

NoItem == [kind |-> None]

\* _coerce_sentence, _coerce_paragraph, _coerce_passage on a seed item
CoerceSeed(kind, item) ==
    [kind |-> "dict", source |-> "seeds", id |-> item.id,
     key |-> ContentKey(kind), content |-> item.content]

\* ... and on what generate_json returned: None is no dict, the parsed JSON
\* object is one, and has none of the keys
CoercePayload(kind, value) ==
    IF value = None THEN NoItem
    ELSE [kind |-> "dict", source |-> "gemini", id |-> kind,
          key |-> ContentKey(kind), content |-> NoText]

\* mutant: an exception of generate_json is not caught
_generate_Propagates(kind, result) ==
    IF result.kind = "raise" THEN [kind |-> "raise", error |-> result.error]
    ELSE CoercePayload(kind, result.value)

\* _generate_sentence, _generate_paragraph, _generate_passage once
\* generate_json has returned or raised
_generate(kind, result) ==
    IF result.kind = "raise" THEN NoItem
    ELSE CoercePayload(kind, result.value)

\* get_sentence(), get_paragraph() or get_passage() is called: it builds a
\* client and calls generate_json, without override and with retries
GetReading(kind) ==
    /\ reading.pc = "idle"
    /\ \E client \in Clients : gemini' = StartCall(client, None, FALSE)
    /\ reading' = [reading EXCEPT !.pc = "generating", !.kind = kind]
    /\ UNCHANGED <<clock, schedvars, appvars, requests, start, rows>>

\* generate_json is over: the generated item is returned, else one of the
\* seeds, else None
ReturnReading ==
    /\ reading.pc = "generating"
    /\ gemini.pc = "done"
    /\ LET generated == _generate(reading.kind, gemini.result)
           items == _load_fallback(reading.file)
       IN  IF generated.kind = "raise"
           THEN reading' = [reading EXCEPT !.pc = "done", !.raised = generated.error]
           ELSE IF generated # NoItem
           THEN reading' = [reading EXCEPT !.pc = "done", !.result = generated]
           ELSE IF items = <<>>
           THEN reading' = [reading EXCEPT !.pc = "done", !.result = NoItem]
           ELSE \E i \in 1..Len(items) :
                   reading' = [reading EXCEPT
                                 !.pc = "done",
                                 !.result = CoerceSeed(reading.kind, items[i])]
    /\ UNCHANGED <<clock, schedvars, appvars, requests, start, rows, gemini>>

InitReading ==
    /\ user_word = NoUserWord
    /\ clock = 0
    /\ call = NoCall
    /\ ngrades = 0
    /\ twin = NoTwin
    /\ since_fail = <<>>
    /\ user_words = [w \in WordIds |-> NoUserWord]
    /\ review_log = <<>>
    /\ unfamiliar = {}
    /\ session = NoSession
    /\ last = NoRequest
    /\ nops = 0
    /\ requests = [t \in Threads |-> Idle]
    /\ start = NoUserWord
    /\ rows = <<>>
    /\ gemini = NoClient
    /\ \E file \in SeedFiles :
          reading = [pc |-> "idle", kind |-> None, file |-> file,
                     result |-> NoItem, raised |-> None]

NextReading ==
    \/ \E kind \in ReadingKinds : GetReading(kind)
    \/ \E outcome \in Outcomes : Post(outcome)
    \/ ReturnReading

SpecReading == InitReading /\ [][NextReading]_vars

\* ---- one record under grades and unfamiliar marks -----------------------------
\* the table with the record of one word only
OneRow(uw) == [w \in WordIds |-> IF w = ConcWord THEN uw ELSE NoUserWord]

\* add_unfamiliar_word for the word of the record, not marked before (or
\* marked, removed and marked again)
UnfamiliarReset ==
    /\ ngrades < MaxGrades
    /\ LET st == [user_words |-> OneRow(user_word), review_log |-> <<>>,
                  unfamiliar |-> {}, session |-> NoSession]
           r == add_unfamiliar_word(st, ConcWord, clock)
       IN  /\ user_word' = r.user_words[ConcWord]
           /\ call' = [grade |-> "unfamiliar", prior |-> user_word, now |-> clock,
                       next_due |-> r.user_words[ConcWord].next_due, line |-> 3296]
    /\ ngrades' = ngrades + 1
    /\ twin' = NoTwin
    /\ since_fail' = <<>>
    /\ UNCHANGED <<clock, appvars, concvars>>

NextReset ==
    \/ \E grade \in Grades : ComputeSchedule(grade)
    \/ UnfamiliarReset
    \/ Tick

SpecReset == Init /\ [][NextReset]_vars

\* ---- a session from its creation to its end -----------------------------------
\* POST /session/<id>/grade from the page of the session, which sends the id
\* of the card it shows, the head of the queue; any number of "recognize",
\* and a bounded number of other grades
SessionGrade(grade) ==
    /\ session # NoSession
    /\ session.queue # <<>>
    /\ grade = "recognize" \/ nops < MaxSessionOps
    /\ LET word_id == Head(session.queue)
           r == grade_card(AppState, word_id, grade, clock)
       IN  /\ user_words' = r.user_words
           /\ review_log' = r.review_log
           /\ unfamiliar' = r.unfamiliar
           /\ session' = r.session
           /\ last' = [op |-> "grade_card", input |-> [word_id |-> word_id, grade |-> grade],
                       status |-> r.status, error |-> r.error, now |-> clock,
                       before |-> AppState]
    /\ nops' = IF grade = "recognize" THEN nops ELSE nops + 1
    /\ UNCHANGED <<clock, schedvars, concvars>>

\* one session: GET /session creates it, and the run ends with its queue
NextSession ==
    \/ (session = NoSession /\ VocabSession)
    \/ \E grade \in RequestGrades : SessionGrade(grade)

SpecSession == InitApp /\ [][NextSession]_vars

\* ---- claims about the application -----------------------------------------
Requested(op) == last # NoRequest /\ last.op = op
Graded == Requested("grade_card") /\ last.status = 200
TablesUnchanged ==
    /\ user_words = last.before.user_words
    /\ review_log = last.before.review_log
    /\ unfamiliar = last.before.unfamiliar

\* C14: grade_card answers a grade outside the three with an error and
\* leaves every progress record, the review log and the session queue as
\* they were; compute_schedule raises on such a grade and leaves the record
\* as it was.
C14_BadGradeRejected ==
    /\ Requested("grade_card") /\ last.input.grade \notin Grades =>
          /\ last.status = 400
          /\ last.before.session # NoSession => last.error = "Invalid grade"
          /\ TablesUnchanged
          /\ session = last.before.session
    /\ Requested("compute_schedule") /\ last.input.grade \notin Grades =>
          /\ last.error = "KeyError"
          /\ TablesUnchanged
          /\ session = last.before.session

\* a bad grade sent for a word that has a record and heads the queue
C14_Witness ==
    /\ Requested("grade_card") /\ last.input.grade = BadGrade
    /\ last.input.word_id \in WordIds
    /\ user_words[last.input.word_id] # NoUserWord
    /\ session # NoSession /\ session.queue # <<>>
    /\ Head(session.queue) = last.input.word_id

MovedEarlier(w) ==
    /\ last # NoRequest
    /\ user_words[w] # NoUserWord
    /\ last.before.user_words[w] # NoUserWord
    /\ RLess(user_words[w].next_due, last.before.user_words[w].next_due)

\* C17 (as stated): only a grading event moves a record's next_due earlier.
C17_OnlyGradingMovesDueEarlier ==
    \A w \in WordIds : MovedEarlier(w) => Requested("grade_card")

\* C17 (amended): a record's next_due is moved earlier only by a grading
\* event or by marking its word unfamiliar, which sets next_due to the
\* current time.
C17_OnlyGradingOrUnfamiliarMovesDueEarlier ==
    \A w \in WordIds :
        MovedEarlier(w) =>
            \/ Requested("grade_card") /\ last.input.word_id = w
            \/ /\ Requested("add_unfamiliar_word") /\ last.input.text = w
               /\ user_words[w].next_due = Rat(last.now, 1)

\* marking a word unfamiliar pulled its due time back to now
C17_Witness ==
    /\ Requested("add_unfamiliar_word") /\ last.now > 0
    /\ \E w \in WordIds : MovedEarlier(w)

\* C18: a successful grade_card appends exactly one review-log entry, for
\* the word graded, with the grade and the easiness and interval the record
\* has after the update; no other request changes the log.
C18_OneLogEntryPerGrading ==
    /\ Graded =>
          /\ Len(review_log) = Len(last.before.review_log) + 1
          /\ SubSeq(review_log, 1, Len(last.before.review_log)) = last.before.review_log
          /\ LET e == review_log[Len(review_log)]
                 uw == user_words[last.input.word_id]
             IN  /\ e.word_id = last.input.word_id
                 /\ e.grade = last.input.grade
                 /\ e.easiness = uw.easiness
                 /\ e.interval = uw.interval
                 /\ e.created_at = last.now
    /\ last # NoRequest /\ ~Graded => review_log = last.before.review_log

\* a grading that changed the easiness and the interval of a stored record
C18_Witness ==
    /\ Graded
    /\ LET old == last.before.user_words[last.input.word_id]
           new == user_words[last.input.word_id]
       IN  /\ old # NoUserWord
           /\ old.easiness # new.easiness
           /\ old.interval # new.interval

\* C19: after a successful grade_card on a non-empty queue the head is
\* gone for "recognize", back at index min(1, remaining length) for "not"
\* and at index min(2, remaining length) for "barely".
C19_RequeuePolicy ==
    Graded /\ last.before.session.queue # <<>> =>
        LET head == Head(last.before.session.queue)
            rest == Tail(last.before.session.queue)
            k == IF last.input.grade = "not" THEN Min(1, Len(rest)) ELSE Min(2, Len(rest))
        IN  IF last.input.grade = "recognize"
            THEN session.queue = rest
            ELSE /\ Len(session.queue) = Len(rest) + 1
                 /\ session.queue[k + 1] = head
                 /\ \A i \in 1..Len(rest) :
                       session.queue[IF i <= k THEN i ELSE i + 1] = rest[i]

\* a "barely" on a queue of three: the head goes behind the other two
C19_Witness ==
    /\ Graded /\ last.input.grade = "barely"
    /\ Len(last.before.session.queue) = 3
    /\ session.queue[3] = Head(last.before.session.queue)
    /\ session.queue[1] = last.before.session.queue[2]

\* C25: the word that grade_card reschedules and logs, the word_id of the
\* request, is the word it pops from the head of the session queue.
C25_GradedWordIsHead ==
    Graded /\ last.before.session.queue # <<>> =>
        last.input.word_id = Head(last.before.session.queue)

\* C29: the queue of a session holds no word id twice and queue_ids is the
\* set of the ids in the queue, after create_vocab_session and after every
\* grade_card on the session.
C29_QueueConsistent ==
    session # NoSession =>
        /\ \A i, j \in 1..Len(session.queue) : session.queue[i] = session.queue[j] => i = j
        /\ session.queue_ids = {session.queue[i] : i \in 1..Len(session.queue)}

\* a failed head is put back into a queue built from an unfamiliar word that
\* is also a struggling word, and from new words
C29_Witness ==
    /\ Graded /\ last.input.grade \in {"barely", "not"}
    /\ Len(last.before.session.queue) >= 2
    /\ Len(session.queue) = Len(last.before.session.queue)
    /\ Head(last.before.session.queue) \in session.queue_ids
    /\ last.before.unfamiliar # {}

\* ---- claims about requests handled at the same time ------------------------
BothCommitted == \A t \in Threads : requests[t].pc \in {"committed", "done"}

\* the record after the request of thread t and then the request of thread u
InOrder(t, u) ==
    compute_schedule(
        compute_schedule(start, requests[t].grade, requests[t].now).user_word,
        requests[u].grade, requests[u].now).user_word

\* C20: when two grade_card requests for the same word have both committed,
\* the stored record is the result of the two transitions in one of the two
\* orders, and the review log has an entry for each.
C20_Serialized ==
    BothCommitted =>
        /\ \E t \in Threads : \E u \in Threads \ {t} : user_words[ConcWord] = InOrder(t, u)
        /\ Len(review_log) = 2

\* C28: every stored record has last_grade "not" when its repetitions are 0,
\* so it is either a struggling word or has repetitions > 0, the condition
\* of the due reviews.
C28_NotStranded ==
    \A w \in Seen(user_words) :
        /\ user_words[w].repetitions = 0 => user_words[w].last_grade = "not"
        /\ w \in Struggling(user_words) \/ user_words[w].repetitions > 0

\* ---- claims about the rows of user_words -----------------------------------
RowsOf(word_id) == {i \in 1..Len(rows) : rows[i].word_id = word_id}

\* C21: whatever fetch-or-create calls grading and unfamiliar marking make,
\* one after another or interleaved, the table never holds two rows of one
\* (user, word) pair.
C21_OneRecordPerPair ==
    \A w \in WordIds : Cardinality(RowsOf(w)) <= 1

\* two threads missed the row of one word; one inserted it, the INSERT of
\* the other failed
C21_Witness ==
    \E t \in Threads :
        /\ requests[t].pc = "failed"
        /\ Cardinality(RowsOf(requests[t].word_id)) = 1

Done == gemini.pc = "done"
PrimaryModel == IF gemini.model_override = None THEN gemini.model ELSE gemini.model_override
MaxTokensEmpty ==
    /\ gemini.primary # NoData
    /\ gemini.primary.text = NoText
    /\ gemini.primary.finish_reason = "MAX_TOKENS"
\* the models of the POSTs made for the fallback request
FallbackPosts ==
    {gemini.models[i] : i \in gemini.posts.primary + 1 .. Len(gemini.models)}
FallbackDone ==
    /\ gemini.fallback_requests = 1
    /\ gemini.posts.fallback >= 1
    /\ FallbackPosts = {gemini.fallback_model}
    /\ gemini.result.kind = "return" =>
          gemini.result.value = IF gemini.fallback.text = NoText THEN None
                                ELSE _robust_parse_json(gemini.fallback.text)
NoFallback ==
    /\ gemini.fallback_requests = 0
    /\ gemini.posts.fallback = 0

\* C23 (as stated): generate_json makes one more request, to the fallback
\* model, and returns what it parses from that response, exactly when the
\* primary response had no text and finish reason MAX_TOKENS, the fallback
\* is enabled and the fallback model differs from the primary model; it
\* makes no fallback request otherwise, and never two.
C23_FallbackOnMaxTokens ==
    /\ gemini.fallback_requests <= 1
    /\ Done =>
          IF /\ MaxTokensEmpty
             /\ gemini.enable_fallback_on_max_tokens
             /\ gemini.fallback_model # PrimaryModel
          THEN FallbackDone
          ELSE NoFallback

\* C23 (amended): as stated, with the further condition that a fallback
\* model is set: with GEMINI_FALLBACK_MODEL empty no fallback request is made.
C23_FallbackOnMaxTokensWhenSet ==
    /\ gemini.fallback_requests <= 1
    /\ Done =>
          IF /\ MaxTokensEmpty
             /\ gemini.enable_fallback_on_max_tokens
             /\ gemini.fallback_model # NoModel
             /\ gemini.fallback_model # PrimaryModel
          THEN FallbackDone
          ELSE NoFallback

\* an overridden primary model ran out of tokens and the fallback model
\* answered with JSON
C23_Witness ==
    /\ Done /\ MaxTokensEmpty
    /\ gemini.model_override # None
    /\ gemini.fallback_requests = 1
    /\ gemini.result.kind = "return"
    /\ gemini.result.value = ParsedJson

C30_Bounds ==
    /\ gemini.posts.primary <= MAX_RETRIES
    /\ gemini.posts.fallback <= MAX_RETRIES
    /\ gemini.disable_retries =>
          /\ gemini.posts.primary <= 1
          /\ gemini.posts.fallback <= 1
          /\ Done /\ gemini.is_configured => gemini.posts.primary = 1
    /\ gemini.last_post # NoPost =>
          LET p == gemini.last_post
              remain == p.attempt < MaxAttempts(gemini.disable_retries) - 1
          IN  /\ p.did = "retry" => remain
              /\ p.outcome.kind = "HTTPError" =>
                    /\ p.did = "retry" <=>
                          p.outcome.status_code \in RETRY_STATUS_CODES /\ remain
                    /\ p.did # "retry" => /\ p.did = "raise"
                                          /\ gemini.result.kind = "raise"

\* C30: one _request makes at most MAX_RETRIES POSTs, exactly one with
\* disable_retries; an HTTP error is retried only when its status is in
\* RETRY_STATUS_CODES and attempts remain, and is re-raised otherwise; and
\* every call ends, by returning or by raising.
C30_BoundedRetry ==
    /\ []C30_Bounds
    /\ (gemini.pc = "request") ~> (Done /\ gemini.result.kind \in {"return", "raise"})

\* the fifth POST in a row answered 429: the error is raised
C30_Witness ==
    /\ Done
    /\ gemini.posts.primary = MAX_RETRIES
    /\ gemini.last_post.outcome.kind = "HTTPError"
    /\ gemini.last_post.outcome.status_code = 429
    /\ gemini.result.kind = "raise"

\* ---- claims about reading_content ---------------------------------------------
GenerationFailed ==
    \/ gemini.result.kind = "raise"
    \/ gemini.result.kind = "return" /\ gemini.result.value = None

PriorInterval == IF PriorAbsent THEN Rat(0, 1) ELSE call.prior.interval

\* C27: whatever grades and unfamiliar marks came before, a "recognize"
\* leaves an interval strictly greater than the interval it found.
C27_RecognizeLengthens ==
    Called /\ call.grade = "recognize" => RLess(PriorInterval, user_word.interval)

\* a "recognize" on a record of three repetitions and an interval of a week
C27_Witness ==
    /\ Called /\ call.grade = "recognize" /\ ~PriorAbsent
    /\ call.prior.repetitions = 3
    /\ call.prior.interval = Rat(7, 1)
    /\ RLess(Rat(7, 1), user_word.interval)

\* ---- claims about a session from its creation to its end ---------------------
InQueue(w) == session # NoSession /\ w \in session.queue_ids
StrongAtHead(w) ==
    /\ Graded /\ last.input.grade = "recognize" /\ last.input.word_id = w
    /\ Head(last.before.session.queue) = w
    /\ ~InQueue(w)
QueueStep ==
    Requested("grade_card") /\ last.before.session # NoSession =>
        LET b == Len(last.before.session.queue)
            a == Len(session.queue)
        IN  /\ a <= b
            /\ last.status = 200 /\ b > 0 /\ last.input.grade = "recognize" => a = b - 1
            /\ last.status = 200 /\ last.input.grade \in {"barely", "not"} => a = b
            /\ last.status # 200 => a = b

\* C26: no grade_card lengthens the queue of the session: "recognize" takes
\* one card from a queue that has cards, "barely" and "not" keep its length;
\* and if every card of the queue is in the end graded "recognize" while at
\* the head, a queue that has cards becomes empty.
C26_SessionProgress ==
    /\ []QueueStep
    /\ (\A w \in WordIds : [](InQueue(w) => <>StrongAtHead(w)))
          => ((session # NoSession /\ session.queue # <<>>)
                ~> (session # NoSession /\ session.queue = <<>>))

\* the last card leaves the queue after a card had been put back
C26_Witness ==
    /\ Graded /\ last.input.grade = "recognize"
    /\ Len(last.before.session.queue) = 1
    /\ session.queue = <<>>
    /\ \E i \in 1..Len(review_log) : review_log[i].grade \in {"barely", "not"}

====
